---- MODULE Spec2Model ----
(***************************************************************************)
(* The alert-record generator of DataVerse.py: AlertDataGenerator and its  *)
(* generate_dataset run, as a state machine.                               *)
(*                                                                         *)
(* Text the program builds and compares (alert_id, timestamp) is a         *)
(* sequence of one-character strings, compared the way Python compares     *)
(* str: by code point, position by position.  A dict is the sequence of    *)
(* its <<key, value>> pairs in insertion order.  A                         *)
(* naive datetime is the number of whole seconds since 1970-01-01 00:00:00 *)
(* (strftime drops the microseconds, and every offset subtracted is a      *)
(* whole number of seconds).  A 2-decimal float such as severity_score is  *)
(* held in hundredths.                                                     *)
(***************************************************************************)
EXTENDS Integers, Sequences, FiniteSets, TLC

(* ------------------------------ bounds --------------------------------- *)

\* random.random() is modelled as u / RandomResolution, u in 0..RandomResolution-1
RandomResolution == 100

\* largest num_records of the runs that vary the record fields
MaxFieldRecords == 1

\* largest num_records of the runs that vary the timestamps
MaxRecords == 3

\* seconds the clock may advance while one run is in its loop
MaxTicks == 2

\* frames of up to this many rows get every tie order an unstable sort may
\* leave; larger frames get two of them (generation order kept, and reversed)
MaxPermRows == 2

\* most labels in a mapping handed to weighted_random_choice directly
MaxLabels == 2

\* the weights of those mappings range over -MaxWeight..MaxWeight
MaxWeight == 2

(* ------------------------ configuration (__init__) --------------------- *)

alert_categories ==
  << <<"Performance", 25>>, <<"Availability", 20>>, <<"Exception", 20>>,
     <<"Database", 15>>, <<"Connectivity", 10>>, <<"Security", 5>>,
     <<"Network", 3>>, <<"Application", 2>> >>

priority_distribution ==
  << <<"P1", 10>>, <<"P2", 15>>, <<"P3", 35>>, <<"P4", 30>>, <<"P5", 10>> >>

systems ==
  << "SAP_ECC_PRD", "SAP_S4HANA_PRD", "HANA_DB_01", "HANA_DB_02",
     "BTP_Tenant_01", "BTP_Tenant_02", "App_SRV_01", "App_SRV_02",
     "Web_Gateway_01", "Integration_Hub", "API_Gateway", "Auth_Service",
     "Payment_Gateway", "Email_Service", "File_Server", "Backup_System" >>

alert_messages ==
  <<
    <<"Performance", <<
        "CPU utilization exceeded 90% threshold for 5 minutes",
        "Response time degradation detected - average 3.5s",
        "Memory usage critical - 95% utilized",
        "Disk I/O operations exceeding 1000 IOPS",
        "Thread pool exhaustion warning - 98% threads active",
        "Query execution time exceeded 10 seconds",
        "API response latency above 2000ms",
        "High garbage collection activity detected",
        "Connection pool near capacity - 90% used",
        "Slow transaction processing detected" >> >>,
    <<"Availability", <<
        "Service unavailable - HTTP 503 errors",
        "Health check failure detected",
        "Database connection lost",
        "Service restart required due to unresponsive state",
        "Scheduled maintenance window started",
        "Failover to secondary system initiated",
        "Service degradation - partial functionality available",
        "Load balancer health check failing",
        "Cluster node unreachable",
        "Service recovery in progress" >> >>,
    <<"Exception", <<
        "NullPointerException in payment processing module",
        "Unhandled exception in user authentication service",
        "OutOfMemoryError in report generation",
        "Database deadlock detected and resolved",
        "Connection timeout exception - external API",
        "JSON parsing error in data ingestion",
        "File not found exception in batch job",
        "Concurrent modification exception in cache layer",
        "Invalid state exception in workflow engine",
        "Stack overflow error in recursive function" >> >>,
    <<"Database", <<
        "Database connection pool exhausted",
        "Long-running query detected - 45 seconds",
        "Database backup failed - disk space",
        "Replication lag exceeds 10 minutes",
        "Table lock timeout occurred",
        "Index fragmentation above 30%",
        "Database checkpoint taking longer than expected",
        "Transaction log full - immediate action required",
        "Database mirroring suspended",
        "Slow query alert - full table scan detected" >> >>,
    <<"Connectivity", <<
        "Network latency spike detected - 500ms",
        "TCP connection reset by peer",
        "DNS resolution failure for external service",
        "VPN tunnel disconnected",
        "Firewall rule blocking legitimate traffic",
        "Network packet loss exceeds 5%",
        "SSL certificate validation failed",
        "Load balancer connection timeout",
        "Network interface card error detected",
        "Bandwidth utilization above 80%" >> >>,
    <<"Security", <<
        "Multiple failed login attempts detected",
        "Unauthorized access attempt blocked",
        "Security certificate expiring in 7 days",
        "Suspicious API access pattern detected",
        "Privilege escalation attempt logged",
        "Data encryption key rotation required",
        "Firewall rule violation detected",
        "Intrusion detection system alert triggered",
        "SQL injection attempt blocked",
        "Cross-site scripting attempt detected" >> >>,
    <<"Network", <<
        "Network switch port flapping detected",
        "Router CPU utilization high - 85%",
        "BGP peer session down",
        "Network packet corruption detected",
        "VLAN configuration mismatch",
        "Network device reboot detected",
        "Spanning tree topology change",
        "Network monitoring agent unreachable",
        "SNMP trap received - link down",
        "Network congestion detected on uplink" >> >>,
    <<"Application", <<
        "Application deployment failed - rollback initiated",
        "Configuration file syntax error detected",
        "Application license expiring in 30 days",
        "Session management error - memory leak suspected",
        "Application cache invalidation failed",
        "Microservice mesh communication failure",
        "Application startup sequence timeout",
        "Feature flag configuration error",
        "Application metrics collection failed",
        "Third-party integration service timeout" >> >>
  >>

team_mapping ==
  <<
    <<"Performance", <<
        "Infrastructure Team",
        "Platform Team" >> >>,
    <<"Availability", <<
        "SRE Team",
        "Operations Team" >> >>,
    <<"Exception", <<
        "Development Team",
        "Application Team" >> >>,
    <<"Database", <<
        "Database Team",
        "DBA Team" >> >>,
    <<"Connectivity", <<
        "Network Team",
        "Infrastructure Team" >> >>,
    <<"Security", <<
        "Security Team",
        "InfoSec Team" >> >>,
    <<"Network", <<
        "Network Team",
        "Infrastructure Team" >> >>,
    <<"Application", <<
        "Application Team",
        "Development Team" >> >>
  >>


(* ------------------------------ dicts ---------------------------------- *)

\* list(d.keys())
Keys(d) == [k \in 1..Len(d) |-> d[k][1]]

\* list(d.values())
Values(d) == [k \in 1..Len(d) |-> d[k][2]]

\* d[key] answered with the first value of the dict, whatever the key
GetFirst(d, key) == d[1][2]

\* d[key]
Get(d, key) == d[CHOOSE k \in 1..Len(d) : d[k][1] = key][2]

(* ------------------------------- text ---------------------------------- *)

\* ord(c) of the characters that occur in alert_id and timestamp
Ord(c) ==
  CASE c = " " -> 32
    [] c = "-" -> 45
    [] c = "0" -> 48
    [] c = "1" -> 49
    [] c = "2" -> 50
    [] c = "3" -> 51
    [] c = "4" -> 52
    [] c = "5" -> 53
    [] c = "6" -> 54
    [] c = "7" -> 55
    [] c = "8" -> 56
    [] c = "9" -> 57
    [] c = ":" -> 58
    [] c = "A" -> 65
    [] c = "L" -> 76
    [] c = "T" -> 84

\* s[k:] < t[k:] on str, k 1-based
RECURSIVE StrLtFrom(_, _, _)
StrLtFrom(s, t, k) ==
  IF k > Len(s) THEN k <= Len(t)
  ELSE IF k > Len(t) THEN FALSE
  ELSE IF s[k] = t[k] THEN StrLtFrom(s, t, k + 1)
  ELSE Ord(s[k]) < Ord(t[k])

\* s < t on str: the first differing position decides, a proper prefix is less
StrLt(s, t) == StrLtFrom(s, t, 1)

DigitChars == << "0", "1", "2", "3", "4", "5", "6", "7", "8", "9" >>

\* str(n) of an int n >= 0
RECURSIVE Str(_)
Str(n) ==
  IF n < 10 THEN << DigitChars[n + 1] >>
  ELSE Str(n \div 10) \o << DigitChars[(n % 10) + 1] >>

\* s.zfill(width) of an unsigned numeral: padded on the left, never cut
Zfill(s, width) ==
  IF Len(s) >= width THEN s
  ELSE [k \in 1..(width - Len(s)) |-> "0"] \o s

\* AlertId numbering from the loop index itself, 0-based
AlertIdZeroBased(index) == << "A", "L", "T", "-" >> \o Zfill(Str(index), 8)

\* f"ALT-{str(index + 1).zfill(8)}"
AlertId(index) == << "A", "L", "T", "-" >> \o Zfill(Str(index + 1), 8)

(* ----------------------------- datetime -------------------------------- *)

\* timedelta(days=, hours=, minutes=, seconds=), in seconds
Timedelta(days, hours, minutes, seconds) ==
  days * 86400 + hours * 3600 + minutes * 60 + seconds

\* the proleptic Gregorian date <<year, month, day>> of a day number
\* (days since 1970-01-01)
CivilFromDays(days) ==
  LET z   == days + 719468
      era == z \div 146097
      doe == z - era * 146097
      yoe == (doe - (doe \div 1460) + (doe \div 36524) - (doe \div 146096)) \div 365
      doy == doe - (365 * yoe + (yoe \div 4) - (yoe \div 100))
      mp  == (5 * doy + 2) \div 153
      d   == doy - ((153 * mp + 2) \div 5) + 1
      m   == IF mp < 10 THEN mp + 3 ELSE mp - 9
      y   == yoe + era * 400 + (IF m <= 2 THEN 1 ELSE 0)
  IN  << y, m, d >>

\* the day number of a date
DaysFromCivil(y, m, d) ==
  LET yy  == IF m <= 2 THEN y - 1 ELSE y
      era == yy \div 400
      yoe == yy - era * 400
      mp  == IF m > 2 THEN m - 3 ELSE m + 9
      doy == ((153 * mp + 2) \div 5) + d - 1
      doe == yoe * 365 + (yoe \div 4) - (yoe \div 100) + doy
  IN  era * 146097 + doe - 719468

\* datetime(y, m, d, hh, mm, ss)
Datetime(y, m, d, hh, mm, ss) ==
  DaysFromCivil(y, m, d) * 86400 + Timedelta(0, hh, mm, ss)

\* dt.strftime('%Y-%m-%d %H:%M:%S')
Strftime(dt) ==
  LET date == CivilFromDays(dt \div 86400)
      sod  == dt % 86400
  IN  Zfill(Str(date[1]), 4) \o << "-" >> \o Zfill(Str(date[2]), 2) \o << "-" >>
        \o Zfill(Str(date[3]), 2) \o << " " >>
        \o Zfill(Str(sod \div 3600), 2) \o << ":" >>
        \o Zfill(Str((sod % 3600) \div 60), 2) \o << ":" >>
        \o Zfill(Str(sod % 60), 2)

(* --------------------------- random source ----------------------------- *)

\* bisect.bisect_right(a, x, lo, hi) for x = num / RandomResolution, with
\* 0-based positions lo, hi into the list a
RECURSIVE Bisect(_, _, _, _)
Bisect(a, num, lo, hi) ==
  IF lo < hi
  THEN LET mid == (lo + hi) \div 2
       IN  IF num < a[mid + 1] * RandomResolution
           THEN Bisect(a, num, lo, mid)
           ELSE Bisect(a, num, mid + 1, hi)
  ELSE lo

\* weights[0] + ... + weights[k - 1]
RECURSIVE SumTo(_, _)
SumTo(weights, k) == IF k = 0 THEN 0 ELSE SumTo(weights, k - 1) + weights[k]

\* list(itertools.accumulate(weights))
Accumulate(weights) == [k \in 1..Len(weights) |-> SumTo(weights, k)]

\* random.choices(population, weights=weights, k=1)[0] when random() returns
\* u / RandomResolution
Choices(population, weights, u) ==
  LET cum_weights == Accumulate(weights)
      total       == cum_weights[Len(cum_weights)]
  IN  population[Bisect(cum_weights, u * total, 0, Len(population) - 1) + 1]

\* the exception random.choices(population, weights=weights, k=1) raises
\* before it draws, "" when it goes on to draw: cum_weights[-1] of an empty
\* list, and the library's test `total <= 0.0`
ChoicesRaises(population, weights) ==
  IF Len(weights) # Len(population) THEN "ValueError"
  ELSE IF Len(weights) = 0 THEN "IndexError"
  ELSE IF SumTo(weights, Len(weights)) <= 0 THEN "ValueError"
  ELSE ""

\* random.uniform(a, b) = a + (b - a) * random(), as a numerator over
\* RandomResolution; u = RandomResolution stands for the float sum rounding
\* up to b, which the library documents as possible
Uniform(a, b, u) == a * RandomResolution + (b - a) * u

\* round(num / RandomResolution, 2) in hundredths, ties to even
Round2(num) ==
  LET n100 == 100 * num
      q    == n100 \div RandomResolution
      r    == n100 % RandomResolution
  IN  IF 2 * r > RandomResolution \/ (2 * r = RandomResolution /\ q % 2 = 1)
      THEN q + 1 ELSE q

\* random.randint(a, b): the sampled outcomes that lie in [a, b]
Randint(a, b, sample) == { x \in sample : a <= x /\ x <= b }

\* random.choice(seq): the elements at the sampled (1-based) positions
Choice(seq, sample) == { seq[k] : k \in sample \cap (1..Len(seq)) }

(* ------------------------------ state ---------------------------------- *)

VARIABLES
  pc,           \* where generate_dataset is: "idle", "loop", "done", "raised"
  num_records,  \* its argument
  i,            \* the next value of the loop variable
  alerts,       \* the list of records appended so far
  reports,      \* every progress update made so far, in order
  df,           \* the frame returned (<<>> until then)
  error,        \* the exception that ended the call ("" when none)
  now,          \* the system clock, read by datetime.now()
  run_start,    \* the clock when the call began
  instants,     \* the datetime behind each record's timestamp, by loop index
  called_with,  \* the argument of the last direct call of weighted_random_choice
  chosen,       \* what that call returned (None when it has not returned)
  raised,       \* the exception that call raised ("" when none)
  sampling      \* the outcomes of the random source and the inputs explored

vars ==
  << pc, num_records, i, alerts, reports, df, error, now, run_start, instants,
     called_with, chosen, raised, sampling >>

\* Python's None, and a present value, for resolution_time_minutes
None == << >>

Some(v) == << v >>

(* ---------------------------- generate_alert --------------------------- *)

\* weighted_random_choice(choices_dict): every label the sampled outcomes of
\* random() select
weighted_random_choice(choices_dict, sample) ==
  { Choices(Keys(choices_dict), Values(choices_dict), u) :
      u \in sample \cap (0..(RandomResolution - 1)) }

\* generate_timestamp(): the datetimes the sampled offsets give at this clock
generate_timestamp(clock) ==
  { clock - Timedelta(days_ago, hours_ago, minutes_ago, seconds_ago) :
      days_ago    \in Randint(0, 30, sampling.days),
      hours_ago   \in Randint(0, 23, sampling.hours),
      minutes_ago \in Randint(0, 59, sampling.minutes),
      seconds_ago \in Randint(0, 59, sampling.seconds) }

StatusLabels == << "Open", "Acknowledged", "Resolved" >>

\* the status drawn for a priority when random() returns u / RandomResolution
Status(priority, u) ==
  IF priority \in {"P1", "P2"}
  THEN Choices(StatusLabels, << 60, 25, 15 >>, u)
  ELSE Choices(StatusLabels, << 30, 30, 40 >>, u)

\* ResolutionTime with the test on the wrong status: anything but 'Open'
ResolutionTimeNotOpen(status) ==
  IF status # "Open"
  THEN { Some(m) : m \in Randint(5, 245, sampling.resolution) }
  ELSE { None }

\* random.randint(5, 245) if status == 'Resolved' else None
ResolutionTime(status) ==
  IF status = "Resolved"
  THEN { Some(m) : m \in Randint(5, 245, sampling.resolution) }
  ELSE { None }

\* SeverityRange with the P2 band run up to the start of the P1 band
SeverityRangeTouching(priority) ==
  CASE priority = "P1" -> << 90, 100 >>
    [] priority = "P2" -> << 70, 90 >>
    [] priority = "P3" -> << 40, 69 >>
    [] priority = "P4" -> << 20, 39 >>
    [] OTHER           -> << 0, 19 >>

\* the arguments of random.uniform for a priority
SeverityRange(priority) ==
  CASE priority = "P1" -> << 90, 100 >>
    [] priority = "P2" -> << 70, 89 >>
    [] priority = "P3" -> << 40, 69 >>
    [] priority = "P4" -> << 20, 39 >>
    [] OTHER           -> << 0, 19 >>

\* round(random.uniform(lo, hi), 2), in hundredths
SeverityScore(priority, u) ==
  LET range == SeverityRange(priority)
  IN  Round2(Uniform(range[1], range[2], u))

\* Impact with P3 taken into the first test
ImpactP3High(priority) ==
  IF priority \in {"P1", "P2", "P3"} THEN "High"
  ELSE IF priority = "P4" THEN "Medium"
  ELSE "Low"

\* 'High' if priority in ['P1', 'P2'] else 'Medium' if priority == 'P3' else 'Low'
Impact(priority) ==
  IF priority \in {"P1", "P2"} THEN "High"
  ELSE IF priority = "P3" THEN "Medium"
  ELSE "Low"

\* the records generate_alert may return once category, priority and status
\* are drawn
AlertsFor(index, timestamp, category, priority, status) ==
  { [ alert_id                |-> AlertId(index),
      timestamp               |-> Strftime(timestamp),
      category                |-> category,
      priority                |-> priority,
      system_source           |-> system,
      message                 |-> message,
      status                  |-> status,
      assigned_team           |-> assigned_team,
      resolution_time_minutes |-> resolution_time,
      severity_score          |-> SeverityScore(priority, u),
      impact                  |-> Impact(priority) ] :
      system          \in Choice(systems, sampling.sys_k),
      message         \in Choice(Get(alert_messages, category), sampling.msg_k),
      resolution_time \in ResolutionTime(status),
      assigned_team   \in Choice(Get(team_mapping, category), sampling.team_k),
      u               \in sampling.score_u \cap (0..RandomResolution) }

\* generate_alert(index), for the datetime its generate_timestamp() call drew
generate_alert(index, timestamp) ==
  UNION { AlertsFor(index, timestamp, category, priority, Status(priority, u)) :
            category \in weighted_random_choice(alert_categories, sampling.cat_u),
            priority \in weighted_random_choice(priority_distribution, sampling.pri_u),
            u        \in sampling.status_u \cap (0..(RandomResolution - 1)) }

(* ------------------------------ frames --------------------------------- *)

\* pd.DataFrame(rows): each row under its index label 0, 1, ...
DataFrame(rows) == [k \in 1..Len(rows) |-> [index |-> k - 1, row |-> rows[k]]]

\* the columns of pd.DataFrame(rows): the keys of the dicts, none for []
Columns(rows) == IF rows = << >> THEN {} ELSE DOMAIN rows[1]

\* The tie orders explored for a frame of n rows.  sort_values is called with
\* its default kind, 'quicksort', which the library documents as not stable:
\* where rows with equal keys end up relative to each other is not specified.
\* tie[k] is the place row k takes among the rows whose key equals its own.
TieOrders(n) ==
  IF n <= MaxPermRows
  THEN { tie \in [1..n -> 1..n] : \A j, k \in 1..n : tie[j] = tie[k] => j = k }
  ELSE { [k \in 1..n |-> k], [k \in 1..n |-> n + 1 - k] }

\* row x goes before row y: by key in the direction asked, equal keys in the
\* tie order
Precedes(x, y, ascending) ==
  \/ IF ascending THEN StrLt(x.key, y.key) ELSE StrLt(y.key, x.key)
  \/ x.key = y.key /\ x.tie < y.tie

\* what decides the place of row k: its value in the column, and its tie order
Keyed(frame, by, tie, k) == [key |-> frame[k].row[by], tie |-> tie[k]]

\* << place, k >> for every row k of the frame: a row's place is one after the
\* number of rows that precede it
Places(frame, by, ascending, tie) ==
  { << 1 + Cardinality({ j \in 1..Len(frame) :
                           Precedes(Keyed(frame, by, tie, j),
                                    Keyed(frame, by, tie, k), ascending) }),
       k >> : k \in 1..Len(frame) }

\* the rows of the frame, each with its label, put in their places
Arrange(frame, places) ==
  [p \in 1..Len(frame) |-> frame[CHOOSE k \in 1..Len(frame) : << p, k >> \in places]]

\* the frame ordered by the str column `by`: one frame for each tie order
SortBy(frame, by, ascending) ==
  { Arrange(frame, places) :
      places \in { Places(frame, by, ascending, tie) : tie \in TieOrders(Len(frame)) } }

\* sort_values with ascending left at its default, True
sort_values_ascending(frame, by) == SortBy(frame, by, TRUE)

\* df.sort_values(by, ascending=False): every frame it may return
sort_values(frame, by) == SortBy(frame, by, FALSE)

\* df.reset_index(drop=True): the old labels are dropped, rows relabelled 0, 1, ...
reset_index(frame) ==
  [k \in 1..Len(frame) |-> [index |-> k - 1, row |-> frame[k].row]]

(* ----------------------------- sampling -------------------------------- *)

\* the outcomes u of random() at which a weighted draw moves on to its next
\* label: one outcome per label of the table
CutPoints(weights) ==
  LET cum   == Accumulate(weights)
      total == cum[Len(cum)]
  IN  { 0 } \cup
      { u \in 1..(RandomResolution - 1) :
          \E k \in 1..(Len(cum) - 1) :
            /\ u * total >= cum[k] * RandomResolution
            /\ (u - 1) * total < cum[k] * RandomResolution }

\* one outcome for every draw: the run is a function of num_records and the clock
FixedDraws ==
  [ cat_u |-> {0}, pri_u |-> {0}, status_u |-> {0}, score_u |-> {0},
    sys_k |-> {1}, msg_k |-> {1}, team_k |-> {1},
    days |-> {0}, hours |-> {0}, minutes |-> {0}, seconds |-> {0},
    resolution |-> {5},
    starts |-> { Datetime(2026, 1, 1, 0, 0, 0) },
    ticks  |-> 0,
    counts |-> {},
    dicts  |-> {} ]

\* runs that vary category and what is chosen by category; also the calls
\* with no record to generate
CategorySampling ==
  [ FixedDraws EXCEPT
      !.cat_u  = CutPoints(Values(alert_categories)),
      !.sys_k  = {1, Len(systems)},
      !.msg_k  = {1, 10},
      !.team_k = {1, 2},
      !.counts = {-5, 0} \cup (1..MaxFieldRecords) ]

\* runs that vary priority and what is drawn by priority
PrioritySampling ==
  [ FixedDraws EXCEPT
      !.pri_u      = CutPoints(Values(priority_distribution)),
      !.status_u   = CutPoints(<< 60, 25, 15 >>) \cup CutPoints(<< 30, 30, 40 >>),
      !.score_u    = {0, RandomResolution \div 2, RandomResolution},
      !.resolution = {5, 245},
      !.counts     = 1..MaxFieldRecords ]

\* runs that vary the timestamps, on a clock that advances during the loop
TimeSampling ==
  [ FixedDraws EXCEPT
      !.days    = {0, 30},
      !.seconds = {0, 1},
      !.starts  = { Datetime(2026, 1, 1, 0, 0, 0), Datetime(2024, 3, 10, 0, 30, 10) },
      !.ticks   = MaxTicks,
      !.counts  = 1..MaxRecords ]

\* runs of every size up to MaxRecords, and calls with no record to generate,
\* on a clock that advances during the loop
ClockSampling ==
  [ FixedDraws EXCEPT
      !.seconds = {0, 1},
      !.ticks   = MaxTicks,
      !.counts  = {-5, 0} \cup (1..MaxRecords) ]

\* runs that take every offset to both ends of its range
OffsetSampling ==
  [ FixedDraws EXCEPT
      !.days    = {0, 30},
      !.hours   = {0, 23},
      !.minutes = {0, 59},
      !.seconds = {0, 59},
      !.counts  = 1..MaxFieldRecords ]

\* every dict of up to MaxLabels distinct labels with integer weights,
\* in every insertion order; the labels are category names
Mappings ==
  LET labels  == { alert_categories[k][1] : k \in 1..MaxLabels }
      entries == labels \X ((-MaxWeight)..MaxWeight)
  IN  UNION { { d \in [1..n -> entries] :
                  \A a, b \in 1..n : a # b => d[a][1] # d[b][1] } :
              n \in 0..MaxLabels }

\* direct calls of weighted_random_choice, on well-formed mappings and on
\* malformed ones, at the low, middle and high outcomes of random()
SamplerSampling ==
  [ FixedDraws EXCEPT
      !.cat_u = {0, RandomResolution \div 2, RandomResolution - 1},
      !.dicts = Mappings ]

\* long runs, around the progress interval
ProgressSampling ==
  [ FixedDraws EXCEPT !.counts = {99, 100, 101, 200} ]

\* the short runs
Samplings ==
  { CategorySampling, PrioritySampling, TimeSampling, OffsetSampling,
    SamplerSampling }

\* the short runs and the long ones
LongSamplings == Samplings \cup { ProgressSampling }

(* ---------------------------- generate_dataset ------------------------- *)

\* a generator just constructed, no call made yet
InitOver(samplings) ==
  /\ sampling \in samplings
  /\ now \in sampling.starts
  /\ pc = "idle"
  /\ num_records = 0
  /\ i = 0
  /\ alerts = << >>
  /\ reports = << >>
  /\ df = << >>
  /\ error = ""
  /\ run_start = now
  /\ instants = << >>
  /\ called_with = << >>
  /\ chosen = None
  /\ raised = ""

\* a direct call of weighted_random_choice has ended, by return or by raise
Called == chosen # None \/ raised # ""

\* weighted_random_choice(choices_dict) is called on the generator directly:
\* random.choices raises, or the label it draws is returned.  The method
\* reads and writes nothing of the generator, so one call per generator is
\* followed: a later call would do what a first call does.
WeightedRandomChoice ==
  /\ pc = "idle"
  /\ ~Called
  /\ \E d \in sampling.dicts :
       LET items   == Keys(d)
           weights == Values(d)
           exc     == ChoicesRaises(items, weights)
       IN  /\ called_with' = d
           /\ IF exc # ""
              THEN /\ raised' = exc
                   /\ chosen' = None
              ELSE /\ raised' = ""
                   /\ \E label \in weighted_random_choice(d, sampling.cat_u) :
                        chosen' = Some(label)
  /\ UNCHANGED << pc, num_records, i, alerts, reports, df, error, now,
                  run_start, instants, sampling >>

\* generate_dataset(num_records) is called: alerts = [], the loop is entered
Begin ==
  /\ pc = "idle"
  /\ \E n \in sampling.counts : num_records' = n
  /\ pc' = "loop"
  /\ i' = 0
  /\ alerts' = << >>
  /\ reports' = << >>
  /\ run_start' = now
  /\ UNCHANGED << df, error, now, instants, called_with, chosen, raised,
                  sampling >>

\* a second passes while the loop runs
Tick ==
  /\ pc = "loop"
  /\ now < run_start + sampling.ticks
  /\ now' = now + 1
  /\ UNCHANGED << pc, num_records, i, alerts, reports, df, error, run_start,
                  instants, called_with, chosen, raised, sampling >>

\* range(num_records) cut one short
RangeShort(n) == 0..(n - 2)

\* range(num_records): the values the loop variable takes, in order
Range(n) == 0..(n - 1)

\* ProgressUpdate with the two conditions tested one after the other, each
\* making its own update
ProgressUpdateEach(idx, total, generated) ==
  (IF (idx + 1) % 100 = 0
   THEN << [count |-> idx + 1, total |-> total, generated |-> generated] >>
   ELSE << >>)
  \o
  (IF idx = total - 1
   THEN << [count |-> idx + 1, total |-> total, generated |-> generated] >>
   ELSE << >>)

\* the progress update of iteration idx, if it makes one: the count shown, of
\* how many, and how many records alerts holds at that moment
ProgressUpdate(idx, total, generated) ==
  IF (idx + 1) % 100 = 0 \/ idx = total - 1
  THEN << [count |-> idx + 1, total |-> total, generated |-> generated] >>
  ELSE << >>

\* one iteration of `for i in range(num_records)`
LoopIteration ==
  /\ pc = "loop"
  /\ i \in Range(num_records)
  /\ \E timestamp \in generate_timestamp(now) :
       \E alert \in generate_alert(i, timestamp) :
         /\ alerts' = Append(alerts, alert)
         /\ instants' = Append(instants, timestamp)
  /\ reports' = reports \o ProgressUpdate(i, num_records, Len(alerts'))
  /\ i' = i + 1
  /\ UNCHANGED << pc, num_records, df, error, now, run_start, called_with,
                  chosen, raised, sampling >>

\* the loop is over and the frame has its 'timestamp' column: sort, relabel,
\* return
SortAndReturn ==
  /\ pc = "loop"
  /\ i \notin Range(num_records)
  /\ "timestamp" \in Columns(alerts)
  /\ \E sorted \in sort_values(DataFrame(alerts), "timestamp") :
       df' = reset_index(sorted)
  /\ pc' = "done"
  /\ UNCHANGED << num_records, i, alerts, reports, error, now, run_start,
                  instants, called_with, chosen, raised, sampling >>

\* the loop is over and pd.DataFrame([]) has no column: sort_values raises
SortRaises ==
  /\ pc = "loop"
  /\ i \notin Range(num_records)
  /\ "timestamp" \notin Columns(alerts)
  /\ pc' = "raised"
  /\ error' = "KeyError"
  /\ UNCHANGED << num_records, i, alerts, reports, df, now, run_start,
                  instants, called_with, chosen, raised, sampling >>

Next ==
  \/ WeightedRandomChoice
  \/ Begin \/ Tick \/ LoopIteration \/ SortAndReturn \/ SortRaises

Init == InitOver(Samplings)

Spec == Init /\ [][Next]_vars

LongInit == InitOver(LongSamplings)

\* the long runs too
LongSpec == LongInit /\ [][Next]_vars

FairInit == InitOver({ ClockSampling, SamplerSampling })

\* Every call runs to its end: the interpreter goes on to the next statement,
\* and no step of generate_dataset waits on anything.
FairSpec ==
  /\ FairInit
  /\ [][Next]_vars
  /\ WF_vars(LoopIteration)
  /\ WF_vars(SortAndReturn)
  /\ WF_vars(SortRaises)

(* ------------------------------ claims --------------------------------- *)

\* every record there is: those appended to alerts and the rows of df
Records ==
  { alerts[k] : k \in 1..Len(alerts) } \cup { df[k].row : k \in 1..Len(df) }

\* the loop index (1-based place in alerts) of the record a row of df holds
GenIndex(row) == CHOOSE k \in 1..Len(alerts) : alerts[k].alert_id = row.alert_id

\* the int a sequence of digit characters writes, or -1 if one is no digit
RECURSIVE NumeralValue(_)
NumeralValue(s) ==
  IF s = << >> THEN 0
  ELSE LET front == NumeralValue(SubSeq(s, 1, Len(s) - 1))
           last  == s[Len(s)]
       IN  IF front < 0 \/ ~(\E d \in 1..10 : DigitChars[d] = last) THEN -1
           ELSE 10 * front + (CHOOSE d \in 1..10 : DigitChars[d] = last) - 1

\* C1: in every record generated, resolution_time_minutes is present (not
\* None) if and only if status is 'Resolved'.
C1_ResolutionIffResolved ==
  \A r \in Records :
    (r.resolution_time_minutes # None) <=> (r.status = "Resolved")

\* a returned dataset holds a Resolved record with the largest resolution time
C1_Witness ==
  /\ pc = "done"
  /\ \E k \in 1..Len(df) :
       /\ df[k].row.status = "Resolved"
       /\ df[k].row.resolution_time_minutes = Some(245)

\* the closed range of severity_score for each priority, in hundredths
ScoreBand(priority) ==
  CASE priority = "P1" -> [lo |-> 9000, hi |-> 10000]
    [] priority = "P2" -> [lo |-> 7000, hi |-> 8900]
    [] priority = "P3" -> [lo |-> 4000, hi |-> 6900]
    [] priority = "P4" -> [lo |-> 2000, hi |-> 3900]
    [] priority = "P5" -> [lo |-> 0,    hi |-> 1900]

\* C2: in every record generated, severity_score lies in the closed range of
\* the record's priority: P1 [90,100], P2 [70,89], P3 [40,69], P4 [20,39],
\* P5 [0,19]; no draw and no rounding puts it outside.
C2_SeverityInBand ==
  \A r \in Records :
    /\ r.priority \in {"P1", "P2", "P3", "P4", "P5"}
    /\ ScoreBand(r.priority).lo <= r.severity_score
    /\ r.severity_score <= ScoreBand(r.priority).hi

\* a returned P2 record scored at the very top of its range, 89.00
C2_Witness ==
  /\ pc = "done"
  /\ \E k \in 1..Len(df) :
       df[k].row.priority = "P2" /\ df[k].row.severity_score = 8900

\* C3: in every record generated, impact is 'High' when priority is P1 or P2,
\* 'Medium' when it is P3 and 'Low' when it is P4 or P5, whatever else was
\* drawn for the record.
C3_ImpactByPriority ==
  \A r \in Records :
    /\ r.priority \in {"P1", "P2"} => r.impact = "High"
    /\ r.priority = "P3" => r.impact = "Medium"
    /\ r.priority \in {"P4", "P5"} => r.impact = "Low"
    /\ r.priority \in {"P1", "P2", "P3", "P4", "P5"}

\* a returned P3 record, Resolved, with impact 'Medium'
C3_Witness ==
  /\ pc = "done"
  /\ \E k \in 1..Len(df) :
       /\ df[k].row.priority = "P3"
       /\ df[k].row.status = "Resolved"
       /\ df[k].row.impact = "Medium"

\* C4: within one run the alert_id values are pairwise different and, in
\* generation order, are 'ALT-' followed by the 8-digit zero-padded numbers
\* 1, 2, ..., and the returned frame holds the same ids, none changed,
\* repeated or dropped.
C4_AlertIds ==
  /\ \A k \in 1..Len(alerts) :
       LET id == alerts[k].alert_id
       IN  /\ Len(id) = 12
           /\ SubSeq(id, 1, 4) = << "A", "L", "T", "-" >>
           /\ NumeralValue(SubSeq(id, 5, 12)) = k
  /\ \A j, k \in 1..Len(alerts) :
       alerts[j].alert_id = alerts[k].alert_id => j = k
  /\ pc = "done" =>
       /\ Len(df) = Len(alerts)
       /\ { df[k].row.alert_id : k \in 1..Len(df) }
            = { alerts[k].alert_id : k \in 1..Len(alerts) }
       /\ \A j, k \in 1..Len(df) :
            df[j].row.alert_id = df[k].row.alert_id => j = k

\* a returned frame of three rows whose first row is not the first generated
C4_Witness ==
  /\ pc = "done"
  /\ Len(df) = 3
  /\ df[1].row.alert_id # alerts[1].alert_id

\* C5: the returned frame is sorted by timestamp, latest first: no row's
\* timestamp string is less than the next row's, and the order of the strings
\* is the order in time of the datetimes they were formatted from.
C5_SortedDescending ==
  /\ \A j, k \in 1..Len(alerts) :
       StrLt(alerts[j].timestamp, alerts[k].timestamp) <=> instants[j] < instants[k]
  /\ pc = "done" =>
       \A k \in 1..(Len(df) - 1) :
         /\ ~StrLt(df[k].row.timestamp, df[k + 1].row.timestamp)
         /\ instants[GenIndex(df[k].row)] >= instants[GenIndex(df[k + 1].row)]

\* a returned frame whose rows were generated oldest first, across a change
\* of year, and come back latest first
C5_Witness ==
  /\ pc = "done"
  /\ Len(df) = 3
  /\ instants[1] < instants[2]
  /\ instants[2] < instants[3]
  /\ df[1].row = alerts[3]
  /\ df[3].row = alerts[1]
  /\ SubSeq(df[1].row.timestamp, 1, 4) # SubSeq(df[3].row.timestamp, 1, 4)

\* C6: in the returned frame, two records with the same timestamp stand in
\* the order they were generated in: the sort is stable.
C6_StableSort ==
  pc = "done" =>
    \A j, k \in 1..Len(df) :
      (j < k /\ df[j].row.timestamp = df[k].row.timestamp)
        => GenIndex(df[j].row) < GenIndex(df[k].row)

\* C7: generate_dataset(n) with n <= 0 fails with InvalidArgument and returns
\* no dataset; generate_dataset(1) succeeds and returns exactly one record.
C7_InvalidArgument ==
  pc \in {"done", "raised"} =>
    /\ num_records <= 0 => (pc = "raised" /\ error = "InvalidArgument" /\ df = << >>)
    /\ num_records = 1 => (pc = "done" /\ error = "" /\ Len(df) = 1)

\* C8: every timestamp of a run lies in [run_start - 30 days, run_start],
\* run_start being the one instant at which the run began.
C8_WithinThirtyDays ==
  \A k \in 1..Len(alerts) :
    /\ run_start - Timedelta(30, 0, 0, 0) <= instants[k]
    /\ instants[k] <= run_start
    /\ ~StrLt(alerts[k].timestamp, Strftime(run_start - Timedelta(30, 0, 0, 0)))
    /\ ~StrLt(Strftime(run_start), alerts[k].timestamp)

\* C9: during generate_dataset(n), n >= 1, progress is reported after every
\* 100th record and at the end; the counts reported increase strictly, each is
\* the number of records generated so far, and the report of n out of n is
\* made exactly once, also when n is a multiple of 100.
C9_Progress ==
  (pc \in {"loop", "done"} /\ num_records >= 1) =>
    /\ \A c \in 1..Len(alerts) :
         (c % 100 = 0 \/ c = num_records)
           => Cardinality({ j \in 1..Len(reports) : reports[j].count = c }) = 1
    /\ \A j \in 1..Len(reports) :
         /\ reports[j].count = reports[j].generated
         /\ reports[j].total = num_records
         /\ reports[j].count % 100 = 0 \/ reports[j].count = num_records
         /\ reports[j].count <= Len(alerts)
    /\ \A j \in 1..(Len(reports) - 1) : reports[j].count < reports[j + 1].count
    /\ pc = "done" =>
         Cardinality({ j \in 1..Len(reports) : reports[j].count = num_records }) = 1

\* a run of 200 records is over: reports at 100 and at 200, no more
C9_Witness ==
  /\ pc = "done"
  /\ num_records = 200
  /\ Len(reports) = 2
  /\ reports[1].count = 100
  /\ reports[2].count = 200

\* C10: for every n >= 1, generate_dataset(n) comes to its end and returns a
\* frame of exactly n rows: the loop appends one record for each of its n
\* indices, and sorting and relabelling keep the rows.
C10_ReturnsNRows ==
  /\ [](pc \in {"loop", "done"} => (Len(alerts) = i /\ Len(instants) = i))
  /\ []((pc # "idle" /\ num_records >= 1) => (i <= num_records /\ pc # "raised"))
  /\ []((pc = "loop" /\ num_records >= 1)
          => <>(pc = "done" /\ Len(alerts) = num_records /\ Len(df) = num_records))

\* a run of three records has returned its three rows, the last generated
\* not last
C10_Witness ==
  /\ pc = "done"
  /\ num_records = 3
  /\ Len(df) = 3
  /\ df[3].index = 2
  /\ df[3].row # alerts[3]

\* the mapping is empty, or one of its weights is zero or negative
Malformed(d) == Len(d) = 0 \/ \E k \in 1..Len(d) : d[k][2] <= 0

\* C11: weighted_random_choice fails with InvalidConfiguration whenever the
\* mapping is empty or holds a zero or negative weight, returning no label
\* then; on a mapping whose weights are all positive it returns one of the
\* mapping's own labels.
C11_InvalidConfiguration ==
  Called =>
    IF Malformed(called_with)
    THEN /\ raised = "InvalidConfiguration"
         /\ chosen = None
    ELSE /\ raised = ""
         /\ chosen # None
         /\ \E k \in 1..Len(called_with) : chosen[1] = called_with[k][1]

\* the elements of a list
Elements(seq) == { seq[k] : k \in 1..Len(seq) }

\* the categories weighted_random_choice(alert_categories) can return
DrawnCategories ==
  weighted_random_choice(alert_categories, 0..(RandomResolution - 1))

\* C12: every record's assigned_team is one of the two teams team_mapping
\* holds for the record's category, and its message is one of the messages
\* alert_messages holds for that category; all 8 categories can be drawn and
\* each has both pools, so neither lookup fails.
C12_PoolsByCategory ==
  /\ \A r \in Records :
       /\ \E k \in 1..Len(team_mapping) :
            /\ team_mapping[k][1] = r.category
            /\ Len(team_mapping[k][2]) = 2
            /\ r.assigned_team \in Elements(team_mapping[k][2])
       /\ \E k \in 1..Len(alert_messages) :
            /\ alert_messages[k][1] = r.category
            /\ r.message \in Elements(alert_messages[k][2])
  /\ Cardinality(DrawnCategories) = 8
  /\ DrawnCategories \subseteq Elements(Keys(team_mapping))
  /\ DrawnCategories \subseteq Elements(Keys(alert_messages))

\* a returned record of the last category, 'Application', with the second
\* team and the last message of its pools
C12_Witness ==
  /\ pc = "done"
  /\ \E k \in 1..Len(df) :
       /\ df[k].row.category = "Application"
       /\ df[k].row.assigned_team = "Development Team"
       /\ df[k].row.message = "Third-party integration service timeout"

====
